---- MODULE Spec2Model ----
(***************************************************************************)
(* svelte-formifier: the Form class of formifier.svelte.ts and the event   *)
(* wiring of formify(), as a state machine.  One action per DOM event      *)
(* handler; validators, schemas, listeners and visibility predicates are   *)
(* user-supplied inputs, drawn from small tables patterned on the          *)
(* repository's example pages.                                            *)
(***************************************************************************)
EXTENDS Integers, Sequences, FiniteSets, TLC

\* Longest string a user types into an input.
MaxLen == 2

\* JavaScript's null and undefined, and "no such option".
Null == "<null>"
Undefined == "<undefined>"
None == "<none>"

RECURSIVE Str(_)
Str(n) == IF n = 0 THEN "" ELSE "x" \o Str(n - 1)

\* The strings an <input type="text"> can hold.
Strings == {Str(n) : n \in 0..MaxLen}

\* Object.keys(options.fields): the field names in declaration order.
FieldNames == <<"a", "b">>

Names == {FieldNames[i] : i \in 1..Len(FieldNames)}

\* ValidationResult = ValidationError[] | null
NullResult == [isNull |-> TRUE, items |-> <<>>]

Errors(items) == [isNull |-> FALSE, items |-> items]

ValidationError(name, message) == [name |-> name, message |-> message]

\* ------------------------------------------------------------------------
\* User-supplied validators.

\* The per-trigger validators of the example page's `hobby` field: each
\* always reports one error carrying the trigger's name.
TriggerValidators == {"onblur", "onchange", "onfocus", "oninput", "onmount", "onsubmit"}

FunctionValidators == TriggerValidators \cup {"fnShort", "fnTwo", "fnRequired"}

SchemaValidators == {"zMax", "zTwo"}

IsFunction(v) == v \in FunctionValidators

\* JavaScript truthiness of a string | null value.
Truthy(s) == s # Null /\ s # Undefined /\ s # ""

\* Calling a function validator: what it returns, or that it threw.
FnCall(v, field) ==
    CASE v \in TriggerValidators ->
            [threw |-> FALSE, result |-> Errors(<<ValidationError(field.name, v)>>)]
      [] v = "fnShort" ->
            \* !field.value || field.value.length < 2 ? null : [...]
            [threw |-> FALSE,
             result |-> IF ~Truthy(field.value) \/ Len(field.value) < 2
                        THEN NullResult
                        ELSE Errors(<<ValidationError(field.name, "String must be < 2 chars")>>)]
      [] v = "fnTwo" ->
            \* field.value ? null : [{required}, {empty}]
            [threw |-> FALSE,
             result |-> IF Truthy(field.value)
                        THEN NullResult
                        ELSE Errors(<<ValidationError(field.name, "required"),
                                      ValidationError(field.name, "empty")>>)]
      [] v = "fnRequired" ->
            \* field.value.length > 0 ? null : [...]: a TypeError on null
            IF field.value = Null
            THEN [threw |-> TRUE, result |-> NullResult]
            ELSE [threw |-> FALSE,
                  result |-> IF Len(field.value) > 0
                             THEN NullResult
                             ELSE Errors(<<ValidationError(field.name, "required")>>)]

\* schema.safeParse(value): the messages of parseResult.error.errors, in
\* order; the empty sequence is parseResult.success.
SafeParse(schema, value) ==
    CASE schema = "zMax" ->
            \* z.string().max(1)
            IF value = Null THEN <<"Expected string, received null">>
            ELSE IF Len(value) > 1 THEN <<"String must contain at most 1 character(s)">>
            ELSE <<>>
      [] schema = "zTwo" ->
            \* z.string().min(2).includes("xx")
            IF value = Null THEN <<"Expected string, received null">>
            ELSE IF Len(value) < 2
                 THEN <<"String must contain at least 2 character(s)", "Invalid input">>
                 ELSE <<>>

\* ------------------------------------------------------------------------
\* Form options.

TriggerNames == {"auto", "onblur", "onchange", "onfocus", "oninput", "onmount"}

ListenerNames == {"onBlur", "onChange", "onFocus", "onInput"}

\* A field without a `validation` object: every `validation?.x` is undefined.
NoValidation ==
    [present |-> FALSE, hasTriggers |-> FALSE, triggers |-> {}, validator |-> None,
     onBlur |-> None, onChange |-> None, onFocus |-> None, onInput |-> None,
     onMount |-> None, onSubmit |-> None]

\* validation: {}
Validation == [NoValidation EXCEPT !.present = TRUE]

\* validation: { triggers: [...] }
WithTriggers(v, list) == [v EXCEPT !.hasTriggers = TRUE, !.triggers = list]

\* The six per-trigger validators of the example page's `hobby` field.
WithPerTrigger(v) ==
    [v EXCEPT !.onBlur = "onblur", !.onChange = "onchange", !.onFocus = "onfocus",
              !.onInput = "oninput", !.onMount = "onmount", !.onSubmit = "onsubmit"]

\* A field declared as {}.
FieldFormOption ==
    [default |-> Undefined, listeners |-> {}, validator |-> None,
     validation |-> NoValidation, visible |-> None]

\* Visibility predicates (VisibilityFunction), by name.
VisibilityFunctions == {"hobbyLong", "hasErrors"}

\* Configurations of the first field.
OptionsA ==
    { FieldFormOption,
      [FieldFormOption EXCEPT !.default = "x", !.validator = "zMax",
                              !.listeners = {"onBlur", "onChange", "onInput"}],
      [FieldFormOption EXCEPT !.validator = "fnTwo"],
      [FieldFormOption EXCEPT !.default = "xx",
            !.validation = WithTriggers([Validation EXCEPT !.validator = "zMax"], {"onchange"})],
      [FieldFormOption EXCEPT !.default = "x", !.listeners = ListenerNames,
            !.validation = WithTriggers([Validation EXCEPT !.validator = "fnShort"],
                                        {"onchange", "oninput"})],
      [FieldFormOption EXCEPT !.validation = WithPerTrigger(Validation)],
      [FieldFormOption EXCEPT
            !.validation = WithPerTrigger(WithTriggers([Validation EXCEPT !.validator = "fnTwo"],
                                TriggerNames))],
      [FieldFormOption EXCEPT !.validator = "zMax",
            !.validation = WithTriggers(Validation, {"onblur", "onfocus"})],
      [FieldFormOption EXCEPT !.listeners = {"onFocus"},
            !.validation = WithTriggers([Validation EXCEPT !.validator = "zTwo"],
                                        {"onmount", "onfocus", "onblur"})],
      [FieldFormOption EXCEPT !.validation = [Validation EXCEPT !.validator = "fnTwo"]],
      [FieldFormOption EXCEPT !.default = "xx",
            !.validation = [Validation EXCEPT !.validator = "zMax", !.onSubmit = "onsubmit"]],
      [FieldFormOption EXCEPT !.validator = "fnShort",
            !.validation = [Validation EXCEPT !.onBlur = "onblur"]],
      [FieldFormOption EXCEPT !.validator = "fnTwo", !.validation = Validation],
      [FieldFormOption EXCEPT !.validator = "zMax",
            !.validation = WithTriggers(Validation, {"onmount"})],
      [FieldFormOption EXCEPT !.validation = [Validation EXCEPT !.onBlur = "onblur"]] }

\* Configurations of the second field.
OptionsB ==
    { FieldFormOption,
      [FieldFormOption EXCEPT !.visible = "hobbyLong"],
      [FieldFormOption EXCEPT !.visible = "hasErrors", !.validator = "zMax",
                              !.listeners = {"onChange", "onInput"}],
      [FieldFormOption EXCEPT !.default = "x", !.validator = "fnShort",
                              !.listeners = ListenerNames] }

\* FormOptions: the fields, and whether onReset / onSubmit are given.
FormOptions(a, b, callbacks) ==
    [fields |-> [n \in Names |-> IF n = "a" THEN a ELSE b],
     onReset |-> callbacks, onSubmit |-> callbacks]

Forms == {FormOptions(a, b, c) : a \in OptionsA, b \in OptionsB, c \in BOOLEAN}

\* Forms whose first field has a validator that throws on a null value.
FaultForms ==
    {FormOptions([FieldFormOption EXCEPT !.validator = "fnRequired"], b, c) :
        b \in OptionsB, c \in BOOLEAN}

\* The <input> elements of the page: the field each one is named after, whose
\* listeners formify() attaches to it, and the field its bind:value writes.
\* As on the example page, one input is named after the first field and
\* bound to the value of the second.
Inputs ==
    {[name |-> n, value |-> n] : n \in Names} \cup {[name |-> "a", value |-> "b"]}

\* ------------------------------------------------------------------------
\* State.

VARIABLES
    options,    \* Form.options
    fields,     \* Form.fields: name -> FormField
    pending,    \* the field whose bound value was written and whose input
                \* listener has not run yet, or None
    last,       \* the transition that produced this state
    log,        \* the validators, listeners and callbacks that transition
                \* invoked, in order
    thrown,     \* whether that transition ended in an exception
    observed,   \* the fields as the form callback of that transition saw them
    focused,    \* the fields that had a focus event since construction or
                \* the last reset
    typed,      \* the fields that had an input event since construction or
                \* the last reset
    heard,      \* the field as each listener of that transition was handed it
    listeners   \* the event listeners attached to the form node and its inputs

vars == <<options, fields, pending, last, log, thrown, observed, focused, typed,
          heard, listeners>>

\* ------------------------------------------------------------------------
\* class Form.  A handler is an operator from the state it starts in to the
\* state it leaves behind; `threw` stops everything after the throw.

Start(fs) ==
    [fields |-> fs, log |-> <<>>, threw |-> FALSE, observed |-> <<>>, heard |-> <<>>]

Invoked(st, kind, name, what) ==
    [st EXCEPT !.log = Append(@, [kind |-> kind, field |-> name, what |-> what])]

\* errorsFrom(), pushing each field's errors in front of those collected.
RECURSIVE errorsFromReversed(_, _)
errorsFromReversed(fs, i) ==
    IF i > Len(FieldNames) THEN <<>>
    ELSE errorsFromReversed(fs, i + 1)
         \o (IF fs[FieldNames[i]].errors.isNull THEN <<>> ELSE fs[FieldNames[i]].errors.items)

\* get errors(): every field's errors, in Object.keys order
RECURSIVE errorsFrom(_, _)
errorsFrom(fs, i) ==
    IF i > Len(FieldNames) THEN <<>>
    ELSE (IF fs[FieldNames[i]].errors.isNull THEN <<>> ELSE fs[FieldNames[i]].errors.items)
         \o errorsFrom(fs, i + 1)

errors(fs) == errorsFrom(fs, 1)

\* hasErrors, with the comparison off by one.
hasErrorsMoreThanOne(fs) == Len(errors(fs)) > 1

hasErrors(fs) == Len(errors(fs)) > 0

\* createFormField(), ignoring the configured default.
createFormFieldNoDefault(name, option) ==
    [isChanged |-> FALSE, isDirty |-> FALSE, isHidden |-> FALSE, isTouched |-> FALSE,
     isVisible |-> TRUE, error |-> Null, errors |-> NullResult, name |-> name,
     value |-> Null]

createFormField(name, option) ==
    [isChanged |-> FALSE, isDirty |-> FALSE, isHidden |-> FALSE, isTouched |-> FALSE,
     isVisible |-> TRUE, error |-> Null, errors |-> NullResult, name |-> name,
     value |-> IF option.default = Undefined THEN Null ELSE option.default]

\* join(), leaving the separator out.
RECURSIVE joinNoSeparator(_, _)
joinNoSeparator(messages, separator) ==
    IF Len(messages) = 0 THEN ""
    ELSE messages[1] \o joinNoSeparator(Tail(messages), separator)

\* result.map((error) => error.message).join('|')
RECURSIVE join(_, _)
join(messages, separator) ==
    IF Len(messages) = 0 THEN ""
    ELSE IF Len(messages) = 1 THEN messages[1]
    ELSE messages[1] \o separator \o join(Tail(messages), separator)

\* validate(), "Get validator"
theValidator(name, validator) ==
    IF validator # None THEN validator
    ELSE IF options.fields[name].validation.present
         THEN options.fields[name].validation.validator
         ELSE options.fields[name].validator

\* result(), with a missing validator yielding [] instead of null.
resultEmptyArray(v, field) ==
    IF v # None /\ IsFunction(v) THEN FnCall(v, field)
    ELSE IF v # None
         THEN LET messages == SafeParse(v, field.value)
              IN  [threw |-> FALSE,
                   result |-> IF messages = <<>> THEN NullResult
                              ELSE Errors([i \in 1..Len(messages) |->
                                              ValidationError(field.name, messages[i])])]
         ELSE [threw |-> FALSE, result |-> Errors(<<>>)]

\* result(), keeping only the first violation of a schema.
resultFirstViolation(v, field) ==
    IF v # None /\ IsFunction(v) THEN FnCall(v, field)
    ELSE IF v # None
         THEN LET messages == SafeParse(v, field.value)
              IN  [threw |-> FALSE,
                   result |-> IF messages = <<>> THEN NullResult
                              ELSE Errors(<<ValidationError(field.name, messages[1])>>)]
         ELSE [threw |-> FALSE, result |-> NullResult]

\* validate(), "Validate"
result(v, field) ==
    IF v # None /\ IsFunction(v) THEN FnCall(v, field)
    ELSE IF v # None
         THEN LET messages == SafeParse(v, field.value)
              IN  [threw |-> FALSE,
                   result |-> IF messages = <<>> THEN NullResult
                              ELSE Errors([i \in 1..Len(messages) |->
                                              ValidationError(field.name, messages[i])])]
         ELSE [threw |-> FALSE, result |-> NullResult]

\* validate(), setting `error` only when there is a result to join.
validateKeepsError(st, name, validator) ==
    LET v == theValidator(name, validator)
        out == result(v, st.fields[name])
        called == IF v = None THEN st ELSE Invoked(st, "validator", name, v)
    IN  IF st.threw THEN st
        ELSE IF out.threw THEN [called EXCEPT !.threw = TRUE]
        ELSE [called EXCEPT
                !.fields[name].error =
                    IF out.result.isNull THEN @
                    ELSE join([i \in 1..Len(out.result.items) |-> out.result.items[i].message],
                              "|"),
                !.fields[name].errors = out.result]

validate(st, name, validator) ==
    LET v == theValidator(name, validator)
        out == result(v, st.fields[name])
        called == IF v = None THEN st ELSE Invoked(st, "validator", name, v)
    IN  IF st.threw THEN st
        ELSE IF out.threw THEN [called EXCEPT !.threw = TRUE]
        ELSE [called EXCEPT
                !.fields[name].error =
                    IF out.result.isNull THEN Null
                    ELSE join([i \in 1..Len(out.result.items) |-> out.result.items[i].message],
                              "|"),
                !.fields[name].errors = out.result]

\* options.fields[key].visible(form)
visible(p, fs) ==
    CASE p = "hobbyLong" -> Truthy(fs["a"].value) /\ Len(fs["a"].value) > 1
      [] p = "hasErrors" -> hasErrors(fs)

\* updateVisibilityOf(), forgetting isHidden.
updateVisibilityOfNoHidden(st, key) ==
    LET p == options.fields[key].visible
    IN  IF p # None
        THEN [st EXCEPT !.fields[key].isVisible = visible(p, st.fields)]
        ELSE st

\* updateVisibilityOf(), treating a missing predicate as one that is false.
updateVisibilityOfEvery(st, key) ==
    LET p == options.fields[key].visible
        shown == IF p # None THEN visible(p, st.fields) ELSE FALSE
    IN  [st EXCEPT !.fields[key].isVisible = shown, !.fields[key].isHidden = ~shown]

\* updateVisibility(), the body of its forEach
updateVisibilityOf(st, key) ==
    LET p == options.fields[key].visible
    IN  IF p # None
        THEN [st EXCEPT !.fields[key].isVisible = visible(p, st.fields),
                        !.fields[key].isHidden = ~visible(p, st.fields)]
        ELSE st

RECURSIVE updateVisibilityFrom(_, _)
updateVisibilityFrom(st, i) ==
    IF i > Len(FieldNames) THEN st
    ELSE updateVisibilityFrom(updateVisibilityOf(st, FieldNames[i]), i + 1)

updateVisibility(st) == IF st.threw THEN st ELSE updateVisibilityFrom(st, 1)

\* options.listeners?.onX?.(field)
listener(st, name, l) ==
    IF st.threw \/ l \notin options.fields[name].listeners THEN st
    ELSE [Invoked(st, "listener", name, l) EXCEPT !.heard = Append(@, st.fields[name])]

\* createFormFields(): each field is created and, if configured, validated
\* on mount, in declaration order.
RECURSIVE createFormFieldsFrom(_, _)
createFormFieldsFrom(st, i) ==
    IF i > Len(FieldNames) THEN st
    ELSE LET key == FieldNames[i]
             validation == options.fields[key].validation
         IN  createFormFieldsFrom(
                IF validation.onMount # None THEN validate(st, key, validation.onMount)
                ELSE IF "onmount" \in validation.triggers THEN validate(st, key, None)
                ELSE st,
                i + 1)

createFormFields ==
    createFormFieldsFrom(
        Start([n \in Names |-> createFormField(n, options.fields[n])]), 1)

\* new Form(options)
constructor == updateVisibility(createFormFields)

\* handleBlurEvent(), marking the field touched as it is left.
handleBlurEventTouches(st, name) ==
    LET validation == options.fields[name].validation
        validator == validation.onBlur
        touched == [st EXCEPT !.fields[name].isTouched = TRUE]
    IN  listener(
            IF validator # None THEN validate(touched, name, validator)
            ELSE IF "onblur" \in validation.triggers THEN validate(touched, name, None)
            ELSE touched,
            name, "onBlur")

handleBlurEvent(st, name) ==
    LET validation == options.fields[name].validation
        validator == validation.onBlur
    IN  listener(
            IF validator # None THEN validate(st, name, validator)
            ELSE IF "onblur" \in validation.triggers THEN validate(st, name, None)
            ELSE st,
            name, "onBlur")

\* handleChangeEvent(), asking the triggers list before the per-trigger validator.
handleChangeEventTriggersFirst(st, name) ==
    LET validation == options.fields[name].validation
        validator == validation.onChange
    IN  listener(
            updateVisibility(
                IF "onchange" \in validation.triggers THEN validate(st, name, None)
                ELSE IF validator # None THEN validate(st, name, validator)
                ELSE IF ~validation.hasTriggers THEN validate(st, name, None)
                ELSE st),
            name, "onChange")

\* handleChangeEvent(), calling the listener before the visibility recompute.
handleChangeEventListenerFirst(st, name) ==
    LET validation == options.fields[name].validation
        validator == validation.onChange
    IN  updateVisibility(
            listener(
                IF validator # None THEN validate(st, name, validator)
                ELSE IF "onchange" \in validation.triggers THEN validate(st, name, None)
                ELSE IF ~validation.hasTriggers THEN validate(st, name, None)
                ELSE st,
                name, "onChange"))

handleChangeEvent(st, name) ==
    LET validation == options.fields[name].validation
        validator == validation.onChange
    IN  listener(
            updateVisibility(
                IF validator # None THEN validate(st, name, validator)
                ELSE IF "onchange" \in validation.triggers THEN validate(st, name, None)
                ELSE IF ~validation.hasTriggers THEN validate(st, name, None)
                ELSE st),
            name, "onChange")

\* handleFocusEvent(), marking the field dirty as well.
handleFocusEventDirty(st, name) ==
    LET validation == options.fields[name].validation
        validator == validation.onFocus
        touched == [st EXCEPT !.fields[name].isTouched = TRUE, !.fields[name].isDirty = TRUE]
    IN  listener(
            IF validator # None THEN validate(touched, name, validator)
            ELSE IF "onfocus" \in validation.triggers THEN validate(touched, name, None)
            ELSE touched,
            name, "onFocus")

\* handleFocusEvent(), marking every field touched.
handleFocusEventTouchesAll(st, name) ==
    LET validation == options.fields[name].validation
        validator == validation.onFocus
        touched == [st EXCEPT !.fields = [n \in Names |-> [@[n] EXCEPT !.isTouched = TRUE]]]
    IN  listener(
            IF validator # None THEN validate(touched, name, validator)
            ELSE IF "onfocus" \in validation.triggers THEN validate(touched, name, None)
            ELSE touched,
            name, "onFocus")

handleFocusEvent(st, name) ==
    LET validation == options.fields[name].validation
        validator == validation.onFocus
        touched == [st EXCEPT !.fields[name].isTouched = TRUE]
    IN  listener(
            IF validator # None THEN validate(touched, name, validator)
            ELSE IF "onfocus" \in validation.triggers THEN validate(touched, name, None)
            ELSE touched,
            name, "onFocus")

\* handleInputEvent(), re-validating whether or not the field holds an error.
handleInputEventEager(st, name) ==
    LET validation == options.fields[name].validation
        validator == validation.onInput
        dirty == [st EXCEPT
                    !.fields[name].isDirty = TRUE,
                    !.fields[name].isChanged =
                        (st.fields[name].value # options.fields[name].default)]
    IN  listener(
            updateVisibility(
                IF validator # None THEN validate(dirty, name, validator)
                ELSE IF "oninput" \in validation.triggers THEN validate(dirty, name, None)
                ELSE IF ~validation.hasTriggers THEN validate(dirty, name, None)
                ELSE dirty),
            name, "onInput")

handleInputEvent(st, name) ==
    LET validation == options.fields[name].validation
        validator == validation.onInput
        dirty == [st EXCEPT
                    !.fields[name].isDirty = TRUE,
                    !.fields[name].isChanged =
                        (st.fields[name].value # options.fields[name].default)]
    IN  listener(
            updateVisibility(
                IF validator # None THEN validate(dirty, name, validator)
                ELSE IF "oninput" \in validation.triggers THEN validate(dirty, name, None)
                ELSE IF Truthy(dirty.fields[name].error) /\ ~validation.hasTriggers
                     THEN validate(dirty, name, None)
                ELSE dirty),
            name, "onInput")

\* reset(), without the visibility recompute.
resetNoVisibility(st) ==
    IF st.threw THEN st
    ELSE [st EXCEPT !.fields = [n \in Names |-> createFormField(n, options.fields[n])]]

\* reset(), recreating only the fields that were configured with a default.
resetOnlyDefaults(st) ==
    IF st.threw THEN st
    ELSE [st EXCEPT !.fields =
            [n \in {m \in DOMAIN st.fields : options.fields[m].default # Undefined} |->
                createFormField(n, options.fields[n])]]

\* reset(), carrying each field's errors over into the recreated field.
resetKeepsErrors(st) ==
    IF st.threw THEN st
    ELSE updateVisibility(
            [st EXCEPT !.fields =
                [n \in DOMAIN st.fields |->
                    [createFormField(n, options.fields[n]) EXCEPT
                        !.errors = st.fields[n].errors, !.error = st.fields[n].error]]])

reset(st) ==
    IF st.threw THEN st
    ELSE updateVisibility(
            [st EXCEPT !.fields =
                [n \in DOMAIN st.fields |->
                    IF n \in DOMAIN options.fields
                    THEN createFormField(n, options.fields[n])
                    ELSE st.fields[n]]])

RECURSIVE validateFormFrom(_, _)
validateFormFrom(st, i) ==
    IF i > Len(FieldNames) THEN st
    ELSE validateFormFrom(
            validate(st, FieldNames[i], options.fields[FieldNames[i]].validation.onSubmit),
            i + 1)

\* validateForm(), recomputing the visibility once every field is validated.
validateFormUpdatesVisibility(st) == updateVisibility(validateFormFrom(st, 1))

\* validateForm(), visiting the fields from the last declared to the first.
validateFormBackwards(st) ==
    validate(
        validate(st, FieldNames[2], options.fields[FieldNames[2]].validation.onSubmit),
        FieldNames[1], options.fields[FieldNames[1]].validation.onSubmit)

validateForm(st) == validateFormFrom(st, 1)

\* callback(event, form)
callback(st, name) ==
    IF st.threw THEN st
    ELSE [Invoked(st, "callback", None, name) EXCEPT !.observed = <<st.fields>>]

\* handleResetEvent(), calling back after the reset.
handleResetEventCallbackLast(st) ==
    IF options.onReset THEN callback(reset(st), "onReset") ELSE reset(st)

\* formify(): the listeners of the form node.
handleResetEvent(st) ==
    IF options.onReset THEN reset(callback(st, "onReset")) ELSE reset(st)

\* handleSubmitEvent(), calling back before validating.
handleSubmitEventCallbackFirst(st) ==
    IF options.onSubmit THEN validateForm(callback(st, "onSubmit")) ELSE validateForm(st)

handleSubmitEvent(st) ==
    IF options.onSubmit THEN callback(validateForm(st), "onSubmit") ELSE validateForm(st)

\* The <form> element formify() is used on.
Node == [name |-> "<form>", value |-> None]

\* An attached event listener: its target (the form node or an input), the
\* event type, and the function object, which is the function expression that
\* created it, named by its line.
EventListener(target, type, fn) == [target |-> target, type |-> type, fn |-> fn]

\* formify(): the addEventListener calls.  Every input is named after a field,
\* so the branch on input.id is never taken.
formify ==
    {EventListener(Node, "reset", 285), EventListener(Node, "submit", 289)}
    \cup UNION {{EventListener(input, "blur", 296), EventListener(input, "change", 299),
                 EventListener(input, "focus", 302), EventListener(input, "input", 305)} :
                    input \in Inputs}

\* destroy(): removeEventListener removes the listener that is the very
\* function object it is given.
destroy(attached) ==
    attached \
        ({EventListener(Node, "reset", 326), EventListener(Node, "submit", 330)}
         \cup UNION {{EventListener(input, "blur", 336), EventListener(input, "change", 339),
                      EventListener(input, "focus", 342), EventListener(input, "input", 345)} :
                        input \in Inputs})

\* ------------------------------------------------------------------------
\* Transitions.

\* An event of the given type on the target reaches a listener of formify().
Dispatched(target, type) == \E l \in listeners : l.target = target /\ l.type = type

DispatchedOn(name, type) == \E input \in Inputs : input.name = name /\ Dispatched(input, type)

Becomes(st, kind, name) ==
    /\ fields' = st.fields
    /\ log' = st.log
    /\ thrown' = st.threw
    /\ observed' = st.observed
    /\ heard' = st.heard
    /\ last' = [kind |-> kind, field |-> name]
    /\ pending' = None
    /\ focused' = IF kind = "reset" THEN {}
                  ELSE IF kind = "focus" THEN focused \cup {name} ELSE focused
    /\ typed' = IF kind = "reset" THEN {}
                ELSE IF kind = "input" THEN typed \cup {name} ELSE typed
    /\ UNCHANGED <<options, listeners>>

\* bind:value writes the input's text into the field it is bound to, before
\* the input listener formify() attached to that input runs.
BindValue(input, text) ==
    /\ pending = None
    /\ fields' = [fields EXCEPT ![input.value].value = text]
    /\ pending' = IF Dispatched(input, "input") THEN input.name ELSE None
    /\ last' = [kind |-> "bind", field |-> input.name]
    /\ log' = <<>>
    /\ thrown' = FALSE
    /\ observed' = <<>>
    /\ heard' = <<>>
    /\ UNCHANGED <<options, focused, typed, listeners>>

Input(name) ==
    /\ pending = name
    /\ DispatchedOn(name, "input")
    /\ Becomes(handleInputEvent(Start(fields), name), "input", name)

Blur(name) ==
    /\ pending = None
    /\ DispatchedOn(name, "blur")
    /\ Becomes(handleBlurEvent(Start(fields), name), "blur", name)

Change(name) ==
    /\ pending = None
    /\ DispatchedOn(name, "change")
    /\ Becomes(handleChangeEvent(Start(fields), name), "change", name)

Focus(name) ==
    /\ pending = None
    /\ DispatchedOn(name, "focus")
    /\ Becomes(handleFocusEvent(Start(fields), name), "focus", name)

Submit ==
    /\ pending = None
    /\ Dispatched(Node, "submit")
    /\ Becomes(handleSubmitEvent(Start(fields)), "submit", None)

Reset ==
    /\ pending = None
    /\ Dispatched(Node, "reset")
    /\ Becomes(handleResetEvent(Start(fields)), "reset", None)

\* The action's destroy(), called when the form node is unmounted.
Destroy ==
    /\ pending = None
    /\ listeners' = destroy(listeners)
    /\ last' = [kind |-> "destroy", field |-> None]
    /\ log' = <<>>
    /\ thrown' = FALSE
    /\ observed' = <<>>
    /\ heard' = <<>>
    /\ UNCHANGED <<options, fields, pending, focused, typed>>

\* createForm(options), then use:formify on the form node.
Constructed(forms) ==
    /\ options \in forms
    /\ fields = constructor.fields
    /\ log = constructor.log
    /\ thrown = FALSE
    /\ observed = <<>>
    /\ last = [kind |-> "construct", field |-> None]
    /\ pending = None
    /\ focused = {}
    /\ typed = {}
    /\ heard = <<>>
    /\ listeners = formify

Init == Constructed(Forms)

Next ==
    \/ \E input \in Inputs, text \in Strings : BindValue(input, text)
    \/ \E name \in Names : Input(name)
    \/ \E name \in Names : Blur(name)
    \/ \E name \in Names : Change(name)
    \/ \E name \in Names : Focus(name)
    \/ Submit
    \/ Reset
    \/ Destroy

Spec == Init /\ [][Next]_vars

\* The same form machinery, configured with a validator that can throw.
InitFault == Constructed(FaultForms)

SpecFault == InitFault /\ [][Next]_vars

\* ------------------------------------------------------------------------
\* Vocabulary of the properties.

\* The entries of a log that are invocations of validators on field n.
ValidatorEntries(l, n) == SelectSeq(l, LAMBDA e : e.kind = "validator" /\ e.field = n)

CallbackEntries(l, name) == SelectSeq(l, LAMBDA e : e.kind = "callback" /\ e.what = name)

ValidatorCall(n, v) == [kind |-> "validator", field |-> n, what |-> v]

\* The field's generic validator: `validation.validator` or the top-level
\* `validator`.
Generic(n) ==
    IF options.fields[n].validation.validator # None
    THEN options.fields[n].validation.validator
    ELSE options.fields[n].validator

\* The validator the field declares for the event kind of a transition.
PerTrigger(kind, n) ==
    CASE kind = "construct" -> options.fields[n].validation.onMount
      [] kind = "blur" -> options.fields[n].validation.onBlur
      [] kind = "change" -> options.fields[n].validation.onChange
      [] kind = "focus" -> options.fields[n].validation.onFocus
      [] kind = "input" -> options.fields[n].validation.onInput
      [] kind = "submit" -> options.fields[n].validation.onSubmit
      [] OTHER -> None

TriggerOf(kind) ==
    CASE kind = "blur" -> "onblur"
      [] kind = "change" -> "onchange"
      [] kind = "focus" -> "onfocus"
      [] kind = "input" -> "oninput"
      [] OTHER -> None

FieldEvents == {"blur", "change", "focus", "input"}

\* The fields a transition of the given kind applies to.
Targets == IF last.kind \in {"construct", "submit"} THEN Names
           ELSE IF last.kind \in FieldEvents THEN {last.field}
           ELSE {}

\* The error string that goes with a validation result.
ErrorOf(r) ==
    IF r.isNull THEN Null
    ELSE join([i \in 1..Len(r.items) |-> r.items[i].message], "|")

MountValidated(n) ==
    \/ options.fields[n].validation.onMount # None
    \/ "onmount" \in options.fields[n].validation.triggers

\* ------------------------------------------------------------------------
\* Properties.

\* C1: after validateForm() completes, every field that has a generic
\* validator (top-level `validator` or `validation.validator`) and no
\* `validation.onSubmit` has errors equal to that generic validator's result
\* on the field's current state, whatever else the field declares.
C1_SubmitRunsGenericValidator ==
    (last.kind = "submit" /\ ~thrown) =>
        \A n \in Names :
            (Generic(n) # None /\ options.fields[n].validation.onSubmit = None) =>
                fields[n].errors = result(Generic(n), fields[n]).result

C3_PerTriggerValidatorWins ==
    ~thrown =>
        \A n \in Targets :
            PerTrigger(last.kind, n) # None =>
                /\ ValidatorEntries(log, n) = <<ValidatorCall(n, PerTrigger(last.kind, n))>>
                /\ fields[n].errors = result(PerTrigger(last.kind, n), fields[n]).result

C3_Witness ==
    /\ last = [kind |-> "change", field |-> "a"]
    /\ options.fields["a"].validation.onChange = "onchange"
    /\ options.fields["a"].validation.validator = "fnTwo"
    /\ "onchange" \in options.fields["a"].validation.triggers
    /\ fields["a"].errors = Errors(<<ValidationError("a", "onchange")>>)
    /\ fields["a"].value = ""

\* C4: on a field with a triggers list and no per-trigger validator for E
\* (blur, change, focus, input), an E transition runs the field's generic
\* validator if and only if the list contains E's trigger name; otherwise no
\* validator runs and errors and error are left as they were.
C4_TriggersListDecides ==
    [][\A n \in Names :
          ( /\ last'.kind \in FieldEvents
            /\ last'.field = n
            /\ options.fields[n].validation.hasTriggers
            /\ PerTrigger(last'.kind, n) = None
            /\ Generic(n) # None )
          => IF TriggerOf(last'.kind) \in options.fields[n].validation.triggers
             THEN /\ ValidatorEntries(log', n) = <<ValidatorCall(n, Generic(n))>>
                  /\ fields'[n].errors = result(Generic(n), fields'[n]).result
             ELSE /\ ValidatorEntries(log', n) = <<>>
                  /\ fields'[n].errors = fields[n].errors
                  /\ fields'[n].error = fields[n].error]_vars

\* C5: after reset(), every field's state equals the state it had right
\* after construction, whatever happened in between.
C5_ResetRestoresConstruction ==
    last.kind = "reset" => fields = constructor.fields

\* C5, amended: after reset(), every field's value, isDirty, isTouched and
\* isChanged are those it had right after construction and its errors and
\* error are null (mount-time validation is not run again); when no field is
\* validated on mount, the whole state equals the state after construction.
C5_ResetRestoresFreshFields ==
    last.kind = "reset" =>
        /\ \A n \in Names :
            /\ fields[n].value = constructor.fields[n].value
            /\ fields[n].isDirty = constructor.fields[n].isDirty
            /\ fields[n].isTouched = constructor.fields[n].isTouched
            /\ fields[n].isChanged = constructor.fields[n].isChanged
            /\ fields[n].errors = NullResult
            /\ fields[n].error = Null
        /\ (\A n \in Names : ~MountValidated(n)) => fields = constructor.fields

C5_Witness ==
    /\ last.kind = "reset"
    /\ Len(observed) = 1
    /\ observed[1]["a"].isDirty /\ observed[1]["a"].isTouched /\ observed[1]["a"].isChanged
    /\ ~observed[1]["a"].errors.isNull
    /\ observed[1]["b"].isHidden
    /\ \A n \in Names : ~MountValidated(n)
    /\ fields = constructor.fields

\* C6: a validator that throws does not abort the transition: the field ends
\* with exactly one synthetic error, submit-validation still validates the
\* remaining fields and the submit callback still runs.
C6_ValidatorFaultCaptured ==
    /\ ~thrown
    /\ \A i \in 1..Len(log) :
        (log[i].kind = "validator" /\ result(log[i].what, fields[log[i].field]).threw) =>
            /\ ~fields[log[i].field].errors.isNull
            /\ Len(fields[log[i].field].errors.items) = 1
    /\ last.kind = "submit" =>
        /\ \A n \in Names :
            theValidator(n, options.fields[n].validation.onSubmit) # None =>
                Len(ValidatorEntries(log, n)) = 1
        /\ options.onSubmit => Len(CallbackEntries(log, "onSubmit")) = 1

\* C7: a field with no top-level `validator` and no `validation` object has
\* error = errors = null in every reachable state.
C7_NoValidatorNoErrors ==
    \A n \in Names :
        (options.fields[n].validator = None /\ ~options.fields[n].validation.present) =>
            (fields[n].error = Null /\ fields[n].errors = NullResult)

C7_Witness ==
    /\ options.fields["a"].validator = None
    /\ ~options.fields["a"].validation.present
    /\ last.kind = "submit"
    /\ fields["a"].isDirty /\ fields["a"].isTouched /\ fields["a"].value = ""
    /\ ~fields["b"].errors.isNull

TopLevelOnly(n) ==
    options.fields[n].validator # None /\ ~options.fields[n].validation.present

\* C8: on a field with only a top-level validator, while its error is null,
\* input, blur and focus transitions run no validator and leave the error
\* null even when the value is invalid; submit-validation then makes the
\* error non-null when the value is invalid.
C8_TopLevelValidatorWaitsForSubmit ==
    [][\A n \in Names :
          TopLevelOnly(n) =>
            /\ ( /\ last'.kind \in {"input", "blur", "focus"}
                 /\ last'.field = n
                 /\ fields[n].error = Null )
               => (ValidatorEntries(log', n) = <<>> /\ fields'[n].error = Null)
            /\ ( /\ last'.kind = "submit"
                 /\ ~thrown'
                 /\ ~result(options.fields[n].validator, fields[n]).result.isNull )
               => fields'[n].error # Null]_vars

C8_Witness ==
    /\ TopLevelOnly("a")
    /\ last = [kind |-> "input", field |-> "a"]
    /\ fields["a"].isTouched
    /\ fields["a"].error = Null
    /\ ~result(options.fields["a"].validator, fields["a"]).result.isNull

\* C9: after every completed transition, every field that declares a
\* visibility predicate has isVisible equal to the predicate evaluated on
\* the resulting form state.
C9_VisibilityFollowsPredicate ==
    pending = None =>
        \A n \in Names :
            options.fields[n].visible # None =>
                fields[n].isVisible = visible(options.fields[n].visible, fields)

\* C10: isHidden is the negation of isVisible, for every field, always.
C10_HiddenIsNotVisible ==
    \A n \in Names : fields[n].isHidden = ~fields[n].isVisible

C10_Witness ==
    /\ last.kind = "input"
    /\ fields["b"].isHidden /\ ~fields["b"].isVisible
    /\ options.fields["b"].visible = "hobbyLong"
    /\ fields["a"].isDirty

\* C11: a field's error is non-null if and only if its errors is a
\* non-empty sequence, in every reachable state.
C11_ErrorIffErrors ==
    \A n \in Names :
        (fields[n].error # Null) <=>
            (~fields[n].errors.isNull /\ Len(fields[n].errors.items) > 0)

C11_Witness ==
    /\ last = [kind |-> "blur", field |-> "a"]
    /\ fields["a"].error # Null
    /\ Len(fields["a"].errors.items) = 2
    /\ fields["b"].error = Null /\ fields["b"].errors.isNull
    /\ "b" \in typed

\* The errors a field contributes to the form: none when its errors is null.
ItemsOf(n) == IF fields[n].errors.isNull THEN <<>> ELSE fields[n].errors.items

C13_HasErrorsIffSomeFieldHasErrors ==
    /\ hasErrors(fields) <=> (Len(errors(fields)) > 0)
    /\ hasErrors(fields) <=> (\E n \in Names : Len(ItemsOf(n)) > 0)

C13_Witness ==
    /\ last.kind = "submit"
    /\ hasErrors(fields)
    /\ Len(ItemsOf("a")) = 0
    /\ Len(ItemsOf("b")) = 1

\* C14: right after construction and after every reset(), each field's value
\* is its configured default (null without one) and isDirty, isTouched and
\* isChanged are false.
C14_FreshFieldsAfterConstructionAndReset ==
    last.kind \in {"construct", "reset"} =>
        \A n \in Names :
            /\ fields[n].value = (IF options.fields[n].default = Undefined THEN Null
                                  ELSE options.fields[n].default)
            /\ ~fields[n].isDirty /\ ~fields[n].isTouched /\ ~fields[n].isChanged

C14_Witness ==
    /\ last.kind = "reset"
    /\ options.fields["a"].default = "x"
    /\ fields["a"].value = "x"
    /\ Len(observed) = 1
    /\ observed[1]["a"].value = "xx"
    /\ observed[1]["a"].isDirty /\ observed[1]["a"].isTouched /\ observed[1]["a"].isChanged

\* The value a field is created with: its default, or null without one.
CreatedValue(n) ==
    IF options.fields[n].default = Undefined THEN Null ELSE options.fields[n].default

\* C15: after every input transition on a field, isChanged is true if and
\* only if the field's current value differs from the value the field was
\* created with (its configured default, or null without one).
C15_ChangedIffValueDiffersFromCreation ==
    last.kind = "input" =>
        (fields[last.field].isChanged <=> (fields[last.field].value # CreatedValue(last.field)))

\* C16: a field's isTouched is true exactly when a focus transition was
\* applied to it since construction or the most recent reset.
C16_TouchedIffFocused ==
    \A n \in Names : fields[n].isTouched <=> (n \in focused)

C16_Witness ==
    /\ last = [kind |-> "blur", field |-> "b"]
    /\ fields["a"].isTouched /\ "a" \in focused
    /\ ~fields["b"].isTouched /\ "b" \in typed
    /\ ~fields["b"].errors.isNull

\* C17: a field's isDirty is true exactly when an input transition was
\* applied to it since construction or the most recent reset.
C17_DirtyIffTyped ==
    \A n \in Names : fields[n].isDirty <=> (n \in typed)

C17_Witness ==
    /\ last = [kind |-> "change", field |-> "b"]
    /\ fields["a"].isDirty /\ "a" \in typed
    /\ ~fields["b"].isDirty /\ "b" \in focused
    /\ fields["b"].value = "x"

\* C18: on a reset event the onReset callback, if configured, is invoked
\* first and is handed the fields as they were before the reset; reset() is
\* then performed whether or not there is a callback.
C18_ResetCallbackThenReset ==
    [][last'.kind = "reset" =>
        /\ options.onReset =>
            /\ log' = <<[kind |-> "callback", field |-> None, what |-> "onReset"]>>
            /\ observed' = <<fields>>
        /\ ~options.onReset => (log' = <<>> /\ observed' = <<>>)
        /\ \A n \in Names :
            /\ fields'[n].value = CreatedValue(n)
            /\ ~fields'[n].isDirty /\ ~fields'[n].isTouched /\ ~fields'[n].isChanged
            /\ fields'[n].errors = NullResult /\ fields'[n].error = Null]_vars

C18_Witness ==
    /\ last.kind = "reset"
    /\ options.onReset
    /\ Len(observed) = 1
    /\ observed[1] # fields
    /\ ~observed[1]["b"].errors.isNull
    /\ observed[1]["b"].isTouched
    /\ fields["b"].errors.isNull /\ ~fields["b"].isTouched

\* The field declares no per-trigger validator at all.
NoPerTrigger(n) ==
    \A kind \in {"construct", "blur", "change", "focus", "input", "submit"} :
        PerTrigger(kind, n) = None

\* C19: on a field with no triggers list and no per-trigger validator for
\* input that holds an error, every input transition re-runs the field's
\* validator: afterwards errors is the validator's result on the current
\* state, so the error goes away only when the value has become valid.
C19_InputRevalidatesFieldInError ==
    [][\A n \in Names :
          ( /\ last'.kind = "input"
            /\ last'.field = n
            /\ ~options.fields[n].validation.hasTriggers
            /\ PerTrigger("input", n) = None
            /\ Generic(n) # None
            /\ Truthy(fields[n].error) )
          => /\ ValidatorEntries(log', n) = <<ValidatorCall(n, Generic(n))>>
             /\ fields'[n].errors = result(Generic(n), fields'[n]).result
             /\ fields'[n].error = ErrorOf(fields'[n].errors)]_vars

\* C20: on a field with a validator and no trigger configuration at all,
\* every change transition runs that validator, whether or not the field
\* holds an error: afterwards errors is the validator's result on the
\* current state.
C20_ChangeValidatesWithoutTriggers ==
    \A n \in Names :
        ( /\ last = [kind |-> "change", field |-> n]
          /\ Generic(n) # None
          /\ ~options.fields[n].validation.hasTriggers
          /\ NoPerTrigger(n) )
        => /\ ValidatorEntries(log, n) = <<ValidatorCall(n, Generic(n))>>
           /\ fields[n].errors = result(Generic(n), fields[n]).result

\* C21: right after construction, a field with a `validation.onMount`
\* validator has errors equal to that validator's result on the field's
\* initial state; a field with 'onmount' in its triggers list and no onMount
\* validator has errors equal to its generic validator's result on the
\* initial state; every other field has errors = error = null.
C21_MountValidation ==
    last.kind = "construct" =>
        \A n \in Names :
            LET initial == createFormField(n, options.fields[n])
                validation == options.fields[n].validation
            IN  IF validation.onMount # None
                THEN fields[n].errors = result(validation.onMount, initial).result
                ELSE IF "onmount" \in validation.triggers
                THEN fields[n].errors = result(Generic(n), initial).result
                ELSE fields[n].errors = NullResult /\ fields[n].error = Null

\* C22: a focus, input, change or blur transition on field f leaves the
\* value, isDirty, isTouched, isChanged, errors and error of every other
\* field unchanged, and never changes f's own value.
C22_FieldEventsTouchOnlyTheirField ==
    [][last'.kind \in FieldEvents =>
        /\ \A n \in Names \ {last'.field} :
            /\ fields'[n].value = fields[n].value
            /\ fields'[n].isDirty = fields[n].isDirty
            /\ fields'[n].isTouched = fields[n].isTouched
            /\ fields'[n].isChanged = fields[n].isChanged
            /\ fields'[n].errors = fields[n].errors
            /\ fields'[n].error = fields[n].error
        /\ fields'[last'.field].value = fields[last'.field].value]_vars

C22_Witness ==
    /\ last = [kind |-> "focus", field |-> "a"]
    /\ ~fields["a"].errors.isNull /\ fields["a"].isTouched
    /\ fields["b"].value = "xx" /\ fields["b"].isDirty /\ fields["b"].isChanged
    /\ ~fields["b"].isTouched
    /\ ~fields["b"].errors.isNull

ListenerEntries(l) == SelectSeq(l, LAMBDA e : e.kind = "listener")

\* The listener a field can register for the event kind of a transition.
ListenerOf(kind) ==
    CASE kind = "blur" -> "onBlur"
      [] kind = "change" -> "onChange"
      [] kind = "focus" -> "onFocus"
      [] kind = "input" -> "onInput"
      [] OTHER -> None

\* C23: on a focus, input, change or blur transition on field f, the listener
\* registered for that event kind on f, if any, is invoked exactly once, as
\* the last step, and is handed f in its final state (flags, errors and
\* visibility as the transition leaves them); no other listener is invoked.
C23_ListenerOnceOnFinalState ==
    last.kind \in FieldEvents =>
        IF ListenerOf(last.kind) \in options.fields[last.field].listeners
        THEN /\ ListenerEntries(log) =
                    <<[kind |-> "listener", field |-> last.field,
                       what |-> ListenerOf(last.kind)]>>
             /\ log[Len(log)].kind = "listener"
             /\ heard = <<fields[last.field]>>
        ELSE ListenerEntries(log) = <<>> /\ heard = <<>>

C23_Witness ==
    /\ last = [kind |-> "change", field |-> "b"]
    /\ options.fields["b"].visible = "hasErrors"
    /\ Len(log) = 2
    /\ Len(heard) = 1
    /\ heard[1].isVisible /\ ~heard[1].errors.isNull
    /\ fields["a"].errors.isNull

\* C24: whenever a validation leaves a field with a non-empty errors
\* sequence, error is the messages of errors joined in order with '|'; with
\* exactly one error, error is that error's message.  (No validator of the
\* model reports more than two errors.)
C24_ErrorJoinsMessages ==
    \A n \in Names :
        LET items == fields[n].errors.items
        IN  /\ Len(items) = 1 => fields[n].error = items[1].message
            /\ Len(items) = 2 =>
                    fields[n].error = items[1].message \o "|" \o items[2].message
            /\ Len(items) <= 2

C24_Witness ==
    /\ last.kind = "submit"
    /\ fields["a"].error = "required|empty"
    /\ fields["b"].error = "String must contain at most 1 character(s)"
    /\ fields["b"].value = "xx"

\* C25: when a schema validator is applied to field f: if parsing f's value
\* succeeds, errors and error become null; if it fails with violations
\* m1..mk, errors becomes the k-element sequence of {name: f's name,
\* message: mi} in violation order, the shape a function validator's errors
\* have.
C25_SchemaResultNormalised ==
    \A i \in 1..Len(log) :
        (log[i].kind = "validator" /\ log[i].what \in SchemaValidators) =>
            LET n == log[i].field
                messages == SafeParse(log[i].what, fields[n].value)
            IN  IF messages = <<>>
                THEN fields[n].errors = NullResult /\ fields[n].error = Null
                ELSE /\ ~fields[n].errors.isNull
                     /\ Len(fields[n].errors.items) = Len(messages)
                     /\ \A k \in 1..Len(messages) :
                            fields[n].errors.items[k] = [name |-> n, message |-> messages[k]]

C25_Witness ==
    /\ last.kind = "submit"
    /\ ValidatorEntries(log, "a") = <<ValidatorCall("a", "zTwo")>>
    /\ ValidatorEntries(log, "b") = <<ValidatorCall("b", "zMax")>>
    /\ fields["a"].value = "x" /\ Len(fields["a"].errors.items) = 2
    /\ fields["b"].value = "x" /\ fields["b"].errors.isNull
    /\ fields["b"].isTouched

\* C26: a field that declares no visibility predicate has isVisible = true
\* and isHidden = false in every reachable state.
C26_NoPredicateAlwaysVisible ==
    \A n \in Names :
        options.fields[n].visible = None => (fields[n].isVisible /\ ~fields[n].isHidden)

C26_Witness ==
    /\ last = [kind |-> "change", field |-> "a"]
    /\ options.fields["a"].visible = None
    /\ fields["a"].isVisible /\ ~fields["a"].isHidden
    /\ ~fields["a"].errors.isNull /\ fields["a"].isDirty
    /\ options.fields["b"].visible = "hobbyLong"
    /\ fields["b"].isHidden
    /\ "a" \in focused

\* C27: the set of field names in form.fields equals the set of configured
\* field names in every reachable state: no event transition, validation or
\* reset adds or removes a field.
C27_FieldNamesFixed ==
    DOMAIN fields = DOMAIN options.fields

C27_Witness ==
    /\ last.kind = "reset"
    /\ DOMAIN fields = {"a", "b"}
    /\ options.fields["a"].default = Undefined
    /\ Len(observed) = 1
    /\ observed[1]["a"].value = "x" /\ observed[1]["a"].isDirty
    /\ ~observed[1]["b"].errors.isNull
    /\ fields["a"].value = Null

\* C28: in any focus, input, change, blur or submit transition, a field whose
\* errors are non-empty before the transition has them replaced by null only
\* if a validator configured for that field was invoked during the
\* transition and returned pass; a transition that invokes no validator on
\* the field leaves its errors and error unchanged.
C28_ErrorsClearedOnlyByValidator ==
    [][\A n \in Names :
          ( /\ last'.kind \in FieldEvents \cup {"submit"}
            /\ ~fields[n].errors.isNull
            /\ Len(fields[n].errors.items) > 0 )
          => /\ fields'[n].errors.isNull =>
                    /\ Len(ValidatorEntries(log', n)) = 1
                    /\ result(ValidatorEntries(log', n)[1].what, fields'[n]).result.isNull
             /\ ValidatorEntries(log', n) = <<>> =>
                    /\ fields'[n].errors = fields[n].errors
                    /\ fields'[n].error = fields[n].error]_vars

\* C29: after the destroy() returned by formify has been called, no blur,
\* change, focus or input event on a bound input and no reset or submit event
\* on the form node invokes any Form handler or mutates any field state; in
\* particular the first event after destroy() does not.
C29_DestroyDetachesListeners ==
    [][last.kind = "destroy" =>
        /\ last'.kind \notin FieldEvents \cup {"submit", "reset"}
        /\ last'.kind # "bind" => fields' = fields]_vars

C31_ValidateFormTouchesOnlyErrors ==
    [][last'.kind = "submit" =>
        /\ \A n \in Names :
            /\ fields'[n].value = fields[n].value
            /\ fields'[n].isDirty = fields[n].isDirty
            /\ fields'[n].isTouched = fields[n].isTouched
            /\ fields'[n].isChanged = fields[n].isChanged
            /\ fields'[n].isVisible = fields[n].isVisible
            /\ fields'[n].isHidden = fields[n].isHidden
        /\ ListenerEntries(log') = <<>>
        /\ heard' = <<>>]_vars

C31_Witness ==
    /\ last.kind = "submit"
    /\ options.fields["b"].visible = "hasErrors"
    /\ "onChange" \in options.fields["b"].listeners
    /\ ~fields["b"].errors.isNull
    /\ fields["b"].isHidden /\ ~fields["b"].isVisible
    /\ fields["a"].isDirty /\ fields["a"].isTouched /\ fields["a"].isChanged
    /\ fields["a"].value = "x"

ValidatorCalls(l) == SelectSeq(l, LAMBDA e : e.kind = "validator")

\* The position of a field in the declaration order.
IndexOf(n) == CHOOSE i \in 1..Len(FieldNames) : FieldNames[i] = n

\* C32: each focus, input, change or blur transition on field f invokes at
\* most one validator, on f, and no validator of another field;
\* validateForm() invokes at most one validator per field, visiting the
\* fields in declaration order.
C32_AtMostOneValidatorPerField ==
    /\ last.kind \in FieldEvents =>
        /\ Len(ValidatorCalls(log)) <= 1
        /\ \A i \in 1..Len(ValidatorCalls(log)) :
            /\ ValidatorCalls(log)[i].field = last.field
            /\ ValidatorCalls(log)[i].what \in
                    {PerTrigger(last.kind, last.field),
                     options.fields[last.field].validator,
                     options.fields[last.field].validation.validator} \ {None}
    /\ last.kind = "submit" =>
        /\ \A n \in Names : Len(ValidatorEntries(log, n)) <= 1
        /\ \A i, j \in 1..Len(ValidatorCalls(log)) :
            i < j => IndexOf(ValidatorCalls(log)[i].field) < IndexOf(ValidatorCalls(log)[j].field)
        /\ \A i \in 1..Len(ValidatorCalls(log)) :
            LET n == ValidatorCalls(log)[i].field
            IN  ValidatorCalls(log)[i].what \in
                    {options.fields[n].validation.onSubmit, options.fields[n].validator,
                     options.fields[n].validation.validator} \ {None}

C32_Witness ==
    /\ last.kind = "submit"
    /\ Len(ValidatorCalls(log)) = 2
    /\ ValidatorCalls(log)[1] = ValidatorCall("a", "onsubmit")
    /\ ValidatorCalls(log)[2] = ValidatorCall("b", "fnShort")
    /\ options.fields["a"].validation.validator = "fnTwo"
    /\ fields["b"].value = "xx"

====
